---- MODULE Spec2Model ----
(***************************************************************************)
(* Response cache (Redis, middleware/cache.js), the in-process result      *)
(* cache of ExternalApiService (NodeCache) and the cached external-API     *)
(* routes and the admin invalidation route of the Express server; the      *)
(* express-rate-limit limiters of middleware/rateLimiter.js; the Bull      *)
(* queues of jobs/emailQueue.js and jobs/dataProcessingQueue.js.           *)
(*                                                                         *)
(* Strings are token sequences: "/api/external/weather/Mumbai" is          *)
(* <<"/api/external/", "weather", "/", "Mumbai">>, a Redis key is          *)
(* <<"cache:">> \o url, a glob pattern is a token sequence in which the    *)
(* token "*" is the wildcard.  Time is in seconds.                         *)
(***************************************************************************)
EXTENDS Integers, Sequences, FiniteSets, TLC

VARIABLES
    now,        \* wall clock, seconds
    redis,      \* the Redis store: a set of [key, val, exp] entries
    nodeCache,  \* ExternalApiService's NodeCache: gateway key -> entry
    reqs,       \* the HTTP requests in flight, one per slot: a GET or HEAD
                \* on a cached route, or DELETE /api/admin/cache/:pattern?
    clock,      \* wall clock of the limiters and the queues, milliseconds
    limiter,    \* the rateLimit(...) instance the behaviour follows
    hits,       \* its MemoryStore: the window of the client, or none
    inflight,   \* the requests it admitted that are not answered yet
    answer,     \* the last answer to a request that went through it
    jobs,       \* the Bull jobs in Redis, by job id
    wait,       \* the queue's wait list: the ids of the jobs ready to run
    workers,    \* the queue workers (one per server process)
    repeat,     \* the repeatable jobs registered in Redis
    users       \* the users collection of MongoDB: username -> document

cacheVars == <<now, redis, nodeCache, reqs>>
limiterVars == <<clock, limiter, hits, inflight, answer>>
queueVars == <<jobs, wait, workers, repeat>>
dbVars == <<users>>
vars == <<now, redis, nodeCache, reqs, clock, limiter, hits, inflight, answer,
          jobs, wait, workers, repeat, users>>

----------------------------------------------------------------------------
\* Bounds of the model

NumSlots == 1
MaxTime == 600
TickStep == 200

Slots == 1..NumSlots

----------------------------------------------------------------------------
\* Program constants

WeatherTTL == 600
NewsTTL == 300
ExchangeTTL == 3600
GithubTTL == 1800
StdTTL == 600
DefaultDuration == 300

----------------------------------------------------------------------------
\* Requests

WeatherUrl == <<"/api/external/", "weather", "/", "Mumbai">>
NewsUrl == <<"/api/external/", "news">>
ExchangeUrl == <<"/api/external/", "exchange", "/", "USD">>
GithubUrl == <<"/api/external/", "github", "/", "octocat">>

Urls == {WeatherUrl, NewsUrl}

\* the news route reads country and category from the query string; the same
\* two parameters, written in either order
NewsUrlCountryFirst ==
    <<"/api/external/", "news", "?", "country=us", "&", "category=technology">>
NewsUrlCategoryFirst ==
    <<"/api/external/", "news", "?", "category=technology", "&", "country=us">>

QueryUrls == {NewsUrlCountryFirst, NewsUrlCategoryFirst}

\* app.get(...) also answers HEAD requests
Methods == {"GET", "HEAD"}

\* the capability a URL is routed to (second path token)
Capability(url) == url[2]

\* [variant] every route mounted as cacheMiddleware(), with the default
RouteDurationDefault(url) == DefaultDuration

\* the duration given to cacheMiddleware(...) on each route
RouteDuration(url) ==
    CASE Capability(url) = "weather" -> WeatherTTL
      [] Capability(url) = "news" -> NewsTTL
      [] Capability(url) = "exchange" -> ExchangeTTL
      [] Capability(url) = "github" -> GithubTTL

\* const key = `cache:${req.originalUrl || req.url}`
CacheKey(url) == <<"cache:">> \o url

\* cacheKey of the ExternalApiService method the route calls
GatewayKey(url) ==
    CASE Capability(url) = "weather" -> "weather_Mumbai"
      [] Capability(url) = "news" -> "news_us_technology"
      [] Capability(url) = "exchange" -> "exchange_USD"
      [] Capability(url) = "github" -> "github_octocat"

GatewayKeys == {GatewayKey(u) : u \in Urls}

----------------------------------------------------------------------------
\* Values

NoData == [nil |-> TRUE]
NoBody == [nil |-> TRUE]

\* the normalised result of a provider call made at time t
FreshData(url, t) == [src |-> GatewayKey(url), at |-> t]

\* return { ...cached, cached: true }
MarkCached(d) == [cached |-> TRUE] @@ d

\* res.json({ success: true, data: ... })
SuccessBody(d) == [success |-> TRUE, data |-> d]

\* res.status(500).json({ success: false, message: ... })
ErrorBody(m) == [success |-> FALSE, message |-> m]

\* JSON.stringify / JSON.parse of a JSON-safe value: the string is a value
\* of another type than the object it encodes
JsonStringify(b) == [json |-> b]
JsonParse(s) == s.json

\* res.json({ ...data, cached: true, cacheKey: key })
HitBody(stored, key) == [cached |-> TRUE, cacheKey |-> key] @@ JsonParse(stored)

----------------------------------------------------------------------------
\* The Redis store behind redisClient

NoVal == [nil |-> TRUE]

\* an entry whose expiry has passed answers no command, evicted or not
Live(e) == now < e.exp

\* [variant] a GET that overlooks the expiry of the entry
RedisGetStale(k) ==
    IF \E e \in redis : e.key = k
    THEN (CHOOSE e \in redis : e.key = k).val
    ELSE NoVal

\* GET key
RedisGet(k) ==
    IF \E e \in redis : e.key = k /\ Live(e)
    THEN (CHOOSE e \in redis : e.key = k /\ Live(e)).val
    ELSE NoVal

\* [variant] a write that adds the entry beside the one the key holds
SetexAppend(store, k, ttl, v) ==
    store \cup {[key |-> k, val |-> v, exp |-> now + ttl]}

\* SETEX key ttl value
Setex(store, k, ttl, v) ==
    {e \in store : e.key # k} \cup {[key |-> k, val |-> v, exp |-> now + ttl]}

\* glob match of a key against a pattern, "*" matching any run of tokens
RECURSIVE GlobMatch(_, _)
GlobMatch(p, s) ==
    IF p = <<>> THEN s = <<>>
    ELSE IF Head(p) = "*"
         THEN GlobMatch(Tail(p), s) \/ (s # <<>> /\ GlobMatch(p, Tail(s)))
         ELSE s # <<>> /\ Head(s) = Head(p) /\ GlobMatch(Tail(p), Tail(s))

\* KEYS pattern
RedisKeys(p) == {e.key : e \in {x \in redis : Live(x) /\ GlobMatch(p, x.key)}}

\* DEL key [key ...]: the store afterwards, and the reply (the number of
\* keys that were removed)
RedisDel(store, ks) == {e \in store : e.key \notin ks}
RedisDelReply(store, ks) == Cardinality({e \in store : e.key \in ks /\ Live(e)})

----------------------------------------------------------------------------
\* NodeCache({ stdTTL: 600 }) of ExternalApiService

NoEntry == [nil |-> TRUE]

\* cache.get(cacheKey): undefined for a missing or an expired key
NcGet(k) ==
    IF nodeCache[k] # NoEntry /\ now < nodeCache[k].exp
    THEN nodeCache[k].val
    ELSE NoData

\* cache.set(cacheKey, data)
NcSet(k, d) == [nodeCache EXCEPT ![k] = [val |-> d, exp |-> now + StdTTL]]

----------------------------------------------------------------------------
\* cacheMiddleware(duration)

IdleReq ==
    [pc |-> "idle", method |-> "GET", url |-> WeatherUrl, wrapped |-> FALSE,
     lookup |-> "none", gw |-> "none", data |-> NoData, providerCalls |-> 0,
     nextCalls |-> 0, status |-> 0, body |-> NoBody, setex |-> "none",
     pattern |-> <<>>, keys |-> {}, count |-> 0, removed |-> 0,
     user |-> "none", limited |-> "none", saved |-> "none", job |-> <<"none", 0>>]

\* the accounts of the seed data, and one that registers later
Users == {"admin", "testuser"}
Accounts == Users \cup {"newuser"}

\* the identity the requests carry where one client is followed
Operator == "admin"

NoDoc == [nil |-> TRUE]
NeverCalled == 0 - 1

\* role: 'admin' for admin, 'user' for the others (the schema's default)
Role(w) == IF w = "admin" THEN "admin" ELSE "user"

\* a user document as User.create stores it
NewDoc(w) == [role |-> Role(w), apiCallsCount |-> 0, lastApiCall |-> NeverCalled]

\* [variant] a route without the role check
AuthorizeAnyone(w, role) == TRUE

\* authorize('admin'): next() when req.user.role is the role, else 403
Authorize(w, role) == users[w] # NoDoc /\ users[w].role = role

\* res.status(403).json({ success: false, message: ... }) of authorize
Forbidden(r) ==
    [r EXCEPT !.pc = "done", !.status = 403, !.body = ErrorBody("Not authorized")]

\* [variant] the middleware without its method test
IsCacheableAny(m) == TRUE

\* if (req.method !== 'GET') return next();
IsCacheable(m) == m = "GET"

OnNotGet(r) == [r EXCEPT !.pc = "handler", !.lookup = "skip", !.nextCalls = @ + 1]

\* [variant] a catch block that answers 500 instead of calling next()
OnLookupErrorFail(r) ==
    [r EXCEPT !.pc = "done", !.lookup = "err", !.status = 500,
              !.body = ErrorBody("Cache unavailable")]

\* catch (error) { logger.error(...); next(); }
OnLookupError(r) == [r EXCEPT !.pc = "handler", !.lookup = "err", !.nextCalls = @ + 1]

\* [variant] a hit whose body names the user it is sent to
OnHitPersonal(r, stored) ==
    [r EXCEPT !.pc = "done", !.lookup = "hit", !.status = 200,
              !.body = [user |-> r.user] @@ HitBody(stored, CacheKey(r.url))]

\* if (cachedData) { ...; return res.json({ ...data, cached: true, cacheKey: key }); }
OnHit(r, stored) ==
    [r EXCEPT !.pc = "done", !.lookup = "hit", !.status = 200,
              !.body = HitBody(stored, CacheKey(r.url))]

\* res.json = function(data) {...}; next();
OnMiss(r) ==
    [r EXCEPT !.pc = "handler", !.lookup = "miss", !.wrapped = TRUE,
              !.nextCalls = @ + 1]

CacheMiddleware(s, w, m, u, storeOk) ==
    /\ reqs[s].pc = "idle"
    /\ LET r == [IdleReq EXCEPT !.user = w, !.method = m, !.url = u]
           stored == RedisGet(CacheKey(u))
       IN reqs' = [reqs EXCEPT ![s] =
                IF ~IsCacheable(m) THEN OnNotGet(r)
                ELSE IF ~storeOk THEN OnLookupError(r)
                ELSE IF stored # NoVal THEN OnHit(r, stored)
                ELSE OnMiss(r)]
    /\ UNCHANGED <<now, redis, nodeCache>>
    /\ UNCHANGED <<limiterVars, queueVars, dbVars>>

\* [variant] an awaited SETEX without .catch: the rejection reaches the
\* route's catch block and the request ends in an error
ResJsonFailClosed(r, status, body, writeOk) ==
    IF r.wrapped /\ ~writeOk
    THEN [r EXCEPT !.pc = "done", !.status = 500, !.setex = "failed",
                   !.body = ErrorBody("Cache set error")]
    ELSE [r EXCEPT !.pc = "done", !.status = status, !.body = body,
                   !.setex = IF ~r.wrapped THEN "none"
                             ELSE IF \E e \in redis : e.key = CacheKey(r.url)
                                  THEN "replaced" ELSE "stored"]

\* the reply of res.json(data) on a request: the (possibly overridden)
\* res.json sends data whether or not the SETEX promise rejects.  The field
\* setex records what became of the write: "failed" (rejected, logged),
\* "stored" (the key was new) or "replaced" (the key held an entry)
ResJson(r, status, body, writeOk) ==
    [r EXCEPT !.pc = "done", !.status = status, !.body = body,
              !.setex = IF ~r.wrapped THEN "none"
                        ELSE IF ~writeOk THEN "failed"
                        ELSE IF \E e \in redis : e.key = CacheKey(r.url)
                             THEN "replaced" ELSE "stored"]

\* redisClient.setex(key, duration, JSON.stringify(data)).catch(...)
StoreAfterJson(r, body, writeOk) ==
    IF r.wrapped /\ writeOk
    THEN Setex(redis, CacheKey(r.url), RouteDuration(r.url), JsonStringify(body))
    ELSE redis

----------------------------------------------------------------------------
\* ExternalApiService and the cached routes

\* what the awaited axios.get can do: answer, time out (5000 ms), or answer
\* with an HTTP error carrying the provider's own message
Outcomes == {"ok", "timeout", "provider_error"}

ProviderMessage == "provider: city not found"
DbMessage == "user save failed"

\* the message of the Error each method's catch block throws
GatewayError(url, outcome) ==
    CASE Capability(url) = "weather" ->
            IF outcome = "provider_error" THEN ProviderMessage
            ELSE "Weather service unavailable"
      [] Capability(url) = "news" -> "News service unavailable. Try changing country to us"
      [] Capability(url) = "exchange" -> "Exchange rate service unavailable"
      [] Capability(url) = "github" -> "GitHub user not found or API unavailable"

\* the route's catch block: the news route answers res.status(500).json(...)
\* itself, the others hand the error to errorHandler, which answers either
\* through res.json or through another method of res
UsesResJson(r, viaJson) == Capability(r.url) = "news" \/ viaJson

ErrorReply(r, msg, viaJson, writeOk) ==
    IF UsesResJson(r, viaJson)
    THEN ResJson(r, 500, ErrorBody(msg), writeOk)
    ELSE [r EXCEPT !.pc = "done", !.status = 500, !.body = ErrorBody(msg)]

ErrorStore(r, msg, viaJson, writeOk) ==
    IF UsesResJson(r, viaJson)
    THEN StoreAfterJson(r, ErrorBody(msg), writeOk)
    ELSE redis

\* the handler up to its first suspension: the method looks in NodeCache
\* and either returns { ...cached, cached: true } or issues axios.get
Handler(s) ==
    /\ reqs[s].pc = "handler"
    /\ LET r == reqs[s]
           k == GatewayKey(r.url)
           c == NcGet(k)
       IN /\ reqs' = [reqs EXCEPT ![s] =
                IF c # NoData
                THEN [r EXCEPT !.pc = "save", !.gw = "cached", !.data = MarkCached(c)]
                ELSE [r EXCEPT !.pc = "axios", !.providerCalls = @ + 1]]
          \* an expired key is deleted by the get that finds it
          /\ nodeCache' = IF c = NoData /\ nodeCache[k] # NoEntry
                          THEN [nodeCache EXCEPT ![k] = NoEntry]
                          ELSE nodeCache
    /\ UNCHANGED <<now, redis>>
    /\ UNCHANGED <<limiterVars, queueVars, dbVars>>

\* axios.get settles: on success the normalised data goes into NodeCache and
\* the handler goes on to req.user.save(); on failure the method throws and
\* the route's catch block answers
AxiosReturn(s, outcome, viaJson, writeOk) ==
    /\ reqs[s].pc = "axios"
    /\ LET r == reqs[s]
           d == FreshData(r.url, now)
           msg == GatewayError(r.url, outcome)
       IN IF outcome = "ok"
          THEN /\ reqs' = [reqs EXCEPT ![s] =
                              [r EXCEPT !.pc = "save", !.gw = "fresh", !.data = d]]
               /\ nodeCache' = NcSet(GatewayKey(r.url), d)
               /\ redis' = redis
          ELSE /\ reqs' = [reqs EXCEPT ![s] =
                              ErrorReply([r EXCEPT !.gw = "failed"], msg, viaJson, writeOk)]
               /\ redis' = ErrorStore(r, msg, viaJson, writeOk)
               /\ nodeCache' = nodeCache
    /\ UNCHANGED now
    /\ UNCHANGED <<limiterVars, queueVars, dbVars>>

\* await req.user.save() settles; res.json({ success: true, data })
SaveAndRespond(s, saveOk, viaJson, writeOk) ==
    /\ reqs[s].pc = "save"
    /\ LET r == reqs[s]
           body == SuccessBody(r.data)
       IN IF saveOk
          THEN /\ reqs' = [reqs EXCEPT ![s] = ResJson(r, 200, body, writeOk)]
               /\ redis' = StoreAfterJson(r, body, writeOk)
          ELSE /\ reqs' = [reqs EXCEPT ![s] = ErrorReply(r, DbMessage, viaJson, writeOk)]
               /\ redis' = ErrorStore(r, DbMessage, viaJson, writeOk)
    /\ UNCHANGED <<now, nodeCache>>
    /\ UNCHANGED <<limiterVars, queueVars, dbVars>>

\* the response has been sent; the slot takes the next request
Finish(s) ==
    /\ reqs[s].pc = "done"
    /\ reqs' = [reqs EXCEPT ![s] = IdleReq]
    /\ UNCHANGED <<now, redis, nodeCache>>
    /\ UNCHANGED <<limiterVars, queueVars, dbVars>>

----------------------------------------------------------------------------
\* clearCache(pattern) behind DELETE /api/admin/cache/:pattern?

\* req.params.pattern || '*'; "weather:*" is the pattern of the invalidation
\* example, which no key of this server matches
Patterns == {<<"*">>, <<"*", "weather", "*">>, <<"weather:", "*">>}

\* [variant] a scan that drops the pattern
ScanPatternAll(p) == <<"cache:", "*">>

\* [variant] a scan for the bare pattern, without the prefix of the request
\* cache
ScanPatternBare(p) == p

\* redisClient.keys(`cache:${pattern}`)
ScanPattern(p) == <<"cache:">> \o p

\* return keys.length
ClearCacheResult(keys, delReply) == Cardinality(keys)

\* res.json({ success: true, message: `Cleared ${count} cache entries`, pattern })
ClearedBody(n, p) == [success |-> TRUE, cleared |-> n, pattern |-> p]

\* catch (error) { ...; throw error; } in clearCache, then the route's
\* res.status(500).json({ success: false, message: 'Failed to clear cache' })
ClearFailed(r) ==
    [r EXCEPT !.pc = "done", !.status = 500, !.body = ErrorBody("Failed to clear cache")]

\* const keys = await redisClient.keys(...); with no key the function
\* returns 0 at once
ClearCacheKeys(s, w, p, storeOk) ==
    /\ reqs[s].pc = "idle"
    /\ LET ks == RedisKeys(ScanPattern(p))
           r == [IdleReq EXCEPT !.user = w, !.method = "DELETE",
                                !.url = <<"/api/admin/cache/">>, !.pattern = p]
           n == ClearCacheResult(ks, 0)
       IN reqs' = [reqs EXCEPT ![s] =
                IF ~Authorize(w, "admin") THEN Forbidden(r)
                ELSE IF ~storeOk THEN ClearFailed(r)
                ELSE IF ks = {}
                     THEN [r EXCEPT !.pc = "done", !.status = 200, !.count = n,
                                    !.body = ClearedBody(n, p)]
                     ELSE [r EXCEPT !.pc = "del", !.keys = ks]]
    /\ UNCHANGED <<now, redis, nodeCache>>
    /\ UNCHANGED <<limiterVars, queueVars, dbVars>>

\* await redisClient.del(...keys); return keys.length;
ClearCacheDel(s, storeOk) ==
    /\ reqs[s].pc = "del"
    /\ LET r == reqs[s]
           reply == RedisDelReply(redis, r.keys)
           n == ClearCacheResult(r.keys, reply)
       IN IF storeOk
          THEN /\ redis' = RedisDel(redis, r.keys)
               /\ reqs' = [reqs EXCEPT ![s] =
                              [r EXCEPT !.pc = "done", !.status = 200, !.removed = reply,
                                        !.count = n, !.body = ClearedBody(n, r.pattern)]]
          ELSE /\ redis' = redis
               /\ reqs' = [reqs EXCEPT ![s] = ClearFailed(r)]
    /\ UNCHANGED <<now, nodeCache>>
    /\ UNCHANGED <<limiterVars, queueVars, dbVars>>

----------------------------------------------------------------------------
\* Time and the stores' own housekeeping

Tick ==
    /\ now + TickStep <= MaxTime
    /\ now' = now + TickStep
    /\ UNCHANGED <<redis, nodeCache, reqs>>
    /\ UNCHANGED <<limiterVars, queueVars, dbVars>>

\* Redis evicts the expired keys
RedisEvict ==
    /\ \E e \in redis : ~Live(e)
    /\ redis' = {e \in redis : Live(e)}
    /\ UNCHANGED <<now, nodeCache, reqs>>
    /\ UNCHANGED <<limiterVars, queueVars, dbVars>>

\* NodeCache's periodic check deletes the expired keys
NodeCacheCheck ==
    /\ \E k \in GatewayKeys : nodeCache[k] # NoEntry /\ ~(now < nodeCache[k].exp)
    /\ nodeCache' = [k \in GatewayKeys |->
                        IF nodeCache[k] # NoEntry /\ now < nodeCache[k].exp
                        THEN nodeCache[k] ELSE NoEntry]
    /\ UNCHANGED <<now, redis, reqs>>
    /\ UNCHANGED <<limiterVars, queueVars, dbVars>>

----------------------------------------------------------------------------

----------------------------------------------------------------------------
\* middleware/rateLimiter.js: three rateLimit({...}) instances of
\* express-rate-limit, each with its own MemoryStore, keyed by the client's
\* address.  A behaviour follows one instance and one client.

\* Bounds of the limiter model
TicksPerWindow == 3
MaxWindows == 2
MaxInflight == 6
MaxExcess == 2

\* windowMs and max of the three instances
ApiWindowMs == 900000
ApiMax == 100
AuthWindowMs == 900000
AuthMax == 5
ExternalWindowMs == 60000
ExternalMax == 10

Limiters == {"apiLimiter", "authLimiter", "externalApiLimiter"}

WindowMs(l) ==
    CASE l = "apiLimiter" -> ApiWindowMs
      [] l = "authLimiter" -> AuthWindowMs
      [] l = "externalApiLimiter" -> ExternalWindowMs

\* [variant] a limit that is one too generous
MaxOffByOne(l) ==
    CASE l = "apiLimiter" -> ApiMax + 1
      [] l = "authLimiter" -> AuthMax + 1
      [] l = "externalApiLimiter" -> ExternalMax + 1

Max(l) ==
    CASE l = "apiLimiter" -> ApiMax
      [] l = "authLimiter" -> AuthMax
      [] l = "externalApiLimiter" -> ExternalMax

\* skipSuccessfulRequests: true
SkipSuccessfulRequests(l) == l = "authLimiter"

NoWindow == [nil |-> TRUE]
NoAnswer == [nil |-> TRUE]

\* the window of the client is open
WindowOpen(h) == h # NoWindow /\ clock < h.resetTime

\* [variant] a read-modify-write increment: a request that arrives while
\* another one is being handled writes back the count it read before
IncrementLostUpdate(h) ==
    IF ~WindowOpen(h)
    THEN [totalHits |-> 1, resetTime |-> clock + WindowMs(limiter)]
    ELSE IF inflight.good + inflight.bad > 0 THEN h
         ELSE [h EXCEPT !.totalHits = @ + 1]

\* store.increment(key): the first request of a window opens it, with
\* resetTime = now + windowMs; a window whose resetTime has passed is over
Increment(h) ==
    IF ~WindowOpen(h)
    THEN [totalHits |-> 1, resetTime |-> clock + WindowMs(limiter)]
    ELSE [h EXCEPT !.totalHits = @ + 1]

\* store.decrement(key), called when the response of a request finishes
\* with a status below 400 and skipSuccessfulRequests is set
Decrement(h) ==
    IF h # NoWindow /\ h.totalHits > 0
    THEN [h EXCEPT !.totalHits = @ - 1]
    ELSE h

\* the `message` option of each instance
LimitMessage(l) ==
    CASE l = "apiLimiter" -> "Too many requests from this IP, please try again later."
      [] l = "authLimiter" -> "Too many login attempts, please try again after 15 minutes."
      [] l = "externalApiLimiter" -> "Too many API requests, please slow down."

\* the answer to a request over the limit: apiLimiter has its own handler,
\* the other two answer 429 with their `message`
Rejection(l, h) ==
    IF l = "apiLimiter"
    THEN [status |-> 429,
          body |-> [success |-> FALSE,
                    message |-> "Too many requests. Please try again later.",
                    retryAfter |-> h.resetTime]]
    ELSE [status |-> 429,
          body |-> [success |-> FALSE, message |-> LimitMessage(l)]]

\* what the route behind the limiter answers: below 400 for a request that
\* succeeds (valid credentials), 401 otherwise
HandlerAnswer(ok) ==
    IF ok THEN [status |-> 200, body |-> [success |-> TRUE]]
    ELSE [status |-> 401, body |-> [success |-> FALSE, message |-> "Invalid credentials"]]

\* the limiter middleware takes a request: it counts it, then rejects it
\* if the count is over max, else passes it on to the route
RateLimit(ok) ==
    /\ inflight.good + inflight.bad < MaxInflight
    /\ WindowOpen(hits) => hits.totalHits < Max(limiter) + MaxExcess
    /\ LET h == Increment(hits)
       IN /\ hits' = h
          /\ IF h.totalHits > Max(limiter)
             THEN /\ answer' = Rejection(limiter, h)
                  /\ inflight' = inflight
             ELSE /\ answer' = answer
                  /\ inflight' = IF ok THEN [inflight EXCEPT !.good = @ + 1]
                                 ELSE [inflight EXCEPT !.bad = @ + 1]
    /\ UNCHANGED <<clock, limiter>>
    /\ UNCHANGED <<cacheVars, queueVars, dbVars>>

\* the route answers a request the limiter passed on; the response finishes
RouteAnswers(ok) ==
    /\ IF ok THEN inflight.good > 0 ELSE inflight.bad > 0
    /\ inflight' = IF ok THEN [inflight EXCEPT !.good = @ - 1]
                   ELSE [inflight EXCEPT !.bad = @ - 1]
    /\ answer' = HandlerAnswer(ok)
    /\ hits' = IF SkipSuccessfulRequests(limiter) /\ ok THEN Decrement(hits) ELSE hits
    /\ UNCHANGED <<clock, limiter>>
    /\ UNCHANGED <<cacheVars, queueVars, dbVars>>

\* the store forgets a window that is over
StoreReset ==
    /\ hits # NoWindow
    /\ ~WindowOpen(hits)
    /\ hits' = NoWindow
    /\ UNCHANGED <<clock, limiter, inflight, answer>>
    /\ UNCHANGED <<cacheVars, queueVars, dbVars>>

\* time passes, a fraction of the window at a time; the requests are
\* answered within one such step
LimiterTick ==
    /\ inflight.good + inflight.bad = 0
    /\ clock + WindowMs(limiter) \div TicksPerWindow <= MaxWindows * WindowMs(limiter)
    /\ clock' = clock + WindowMs(limiter) \div TicksPerWindow
    /\ UNCHANGED <<limiter, hits, inflight, answer>>
    /\ UNCHANGED <<cacheVars, queueVars, dbVars>>

----------------------------------------------------------------------------
\* The keys Bull keeps in the same Redis server for the two queues

\* a key without a time to live: its expiry lies beyond every time of a run
NoExpiry == 1000000

\* new Queue('email-queue', { redis }) and new Queue('data-processing',
\* { redis }): Bull's keys are bull:<queue>:<name>
QueueKeys ==
    {<<"bull:", "email-queue", ":", "id">>,
     <<"bull:", "data-processing", ":", "repeat">>}

QueueEntries == {[key |-> k, val |-> [bull |-> TRUE], exp |-> NoExpiry] : k \in QueueKeys}

----------------------------------------------------------------------------
\* The user document behind req.user on the cached routes

\* the calls counted for one user that a run follows
MaxCalls == 2

\* [variant] a handler that counts the call twice
CountCallTwice(doc) ==
    [doc EXCEPT !.apiCallsCount = @ + 2, !.lastApiCall = now]

\* req.user.apiCallsCount += 1; req.user.lastApiCall = Date.now();
CountCall(doc) ==
    [doc EXCEPT !.apiCallsCount = @ + 1, !.lastApiCall = now]

\* await req.user.save(): MongoDB stores the changed document, or the save
\* fails and the collection is as before
UserSave(s, saveOk) ==
    /\ reqs[s].pc = "save"
    /\ reqs[s].saved = "none"
    /\ users' = IF saveOk
                THEN [users EXCEPT ![reqs[s].user] = CountCall(@)]
                ELSE users
    /\ reqs' = [reqs EXCEPT ![s].saved = IF saveOk THEN "ok" ELSE "failed"]
    /\ UNCHANGED <<now, redis, nodeCache>>
    /\ UNCHANGED <<limiterVars, queueVars>>

\* the save has settled and the handler answers
RespondSaved(s, viaJson, writeOk) ==
    /\ reqs[s].saved # "none"
    /\ SaveAndRespond(s, reqs[s].saved = "ok", viaJson, writeOk)

\* a request with the token of user w arrives at a cached route: protect
\* sets req.user and cacheMiddleware runs
Arrive(s, w, m, u, storeOk) ==
    /\ users[w] # NoDoc
    /\ users[w].apiCallsCount < MaxCalls
    /\ CacheMiddleware(s, w, m, u, storeOk)

----------------------------------------------------------------------------
\* externalApiLimiter on the cached routes: protect, cacheMiddleware(N),
\* externalApiLimiter, handler

\* the limiter takes the request cacheMiddleware passed on: it counts it and
\* passes it on to the handler, or answers 429 with its message.  The
\* answer, res.status(429).send(message) with an object, goes through
\* res.json, which cacheMiddleware has overridden on a miss
ExternalApiLimit(s, writeOk) ==
    /\ reqs[s].pc = "handler"
    /\ reqs[s].limited = "none"
    /\ LET r == reqs[s]
           h == Increment(hits)
           no == Rejection(limiter, h)
       IN /\ hits' = h
          /\ IF h.totalHits > Max(limiter)
             THEN /\ reqs' = [reqs EXCEPT ![s] =
                        ResJson([r EXCEPT !.limited = "rejected"], no.status, no.body, writeOk)]
                  /\ redis' = StoreAfterJson(r, no.body, writeOk)
             ELSE /\ reqs' = [reqs EXCEPT ![s].limited = "passed"]
                  /\ redis' = redis
    /\ UNCHANGED <<now, nodeCache>>
    /\ UNCHANGED <<clock, limiter, inflight, answer>>
    /\ UNCHANGED <<queueVars, dbVars>>

\* the handler of a request the limiter passed on
LimitedHandler(s) ==
    /\ reqs[s].limited = "passed"
    /\ Handler(s)

\* a request arrives at the weather route (the hits of a window are
\* followed up to MaxExcess over the limit)
RouteArrive(s, m, storeOk) ==
    /\ WindowOpen(hits) => hits.totalHits < Max(limiter) + MaxExcess
    /\ CacheMiddleware(s, Operator, m, WeatherUrl, storeOk)

\* time passes between requests, for the cache (seconds) and for the
\* limiter (milliseconds)
RouteTick ==
    /\ \A s \in Slots : reqs[s].pc \in {"idle", "done"}
    /\ now + TickStep <= MaxTime
    /\ now' = now + TickStep
    /\ clock' = clock + TickStep * 1000
    /\ UNCHANGED <<redis, nodeCache, reqs>>
    /\ UNCHANGED <<limiter, hits, inflight, answer>>
    /\ UNCHANGED <<queueVars, dbVars>>

----------------------------------------------------------------------------
\* jobs/emailQueue.js and jobs/dataProcessingQueue.js: two Bull queues.  A
\* behaviour follows one of them.  Every server process is a worker of the
\* queue (queue.process, concurrency 1).

\* Bounds of the queue model
NumProcs == 2
MaxEmailJobs == 2
MaxCronTicks == 2

\* sendEmail's job options and the handler's simulated sending time
EmailAttempts == 3
BackoffDelay == 2000
HandlerMs == 1000
\* repeat: { cron: '0 * * * *' }
CronPeriodMs == 3600000
\* the settings of a Queue constructed without `settings`
DefaultAttempts == 1
LockDuration == 30000
MaxStalledCount == 1

Procs == 1..NumProcs

EmailIds == {<<"email", n>> : n \in 1..MaxEmailJobs}
RepeatIds == {<<"repeat", k * CronPeriodMs>> : k \in 1..(MaxCronTicks + 1)}
JobIds == EmailIds \cup RepeatIds
NoId == <<"none", 0>>

NoJob ==
    [state |-> "none", attemptsMade |-> 0, attempts |-> 0, backoff |-> 0,
     delayUntil |-> 0, lockedBy |-> 0, lockUntil |-> 0, stalledCount |-> 0,
     failedReason |-> "", added |-> 0, to |-> "none"]

IdleWorker == [up |-> TRUE, job |-> NoId, doneAt |-> 0]
DownWorker == [up |-> FALSE, job |-> NoId, doneAt |-> 0]

\* [variant] an insert that does not look for the job id
JobExistsNever(js, id) == FALSE

\* the job's key is in Redis (removeOnComplete deletes it on completion)
JobExists(js, id) == js[id].state \notin {"none", "completed"}

\* queue.add with a custom job id: nothing is added if the id exists
AddJob(js, id, attempts, backoff, until) ==
    IF JobExists(js, id) THEN js
    ELSE [js EXCEPT ![id] =
            [NoJob EXCEPT !.state = IF until > clock THEN "delayed" ELSE "waiting",
                          !.attempts = attempts, !.backoff = backoff,
                          !.delayUntil = until, !.added = js[id].added + 1]]

\* [variant] backoff: { type: 'fixed', delay: 2000 }
BackoffFixed(delay, attemptsMade) == delay

\* backoff: { type: 'exponential', delay }: Bull waits (2^attemptsMade - 1)
\* * delay after the attemptsMade-th failure
Backoff(delay, attemptsMade) == (2 ^ attemptsMade - 1) * delay

\* [variant] a retry whatever the number of attempts made
ShouldRetryAlways(job, made) == TRUE

\* the job is retried while it has attempts left
ShouldRetry(job, made) == made < job.attempts

\* the next firing of the cron expression after time t
NextMillis(t) == ((t \div CronPeriodMs) + 1) * CronPeriodMs

\* const job = await emailQueue.add(emailData, { attempts: 3, backoff:
\* { type: 'exponential', delay: 2000 }, removeOnComplete: true })
SendEmail ==
    /\ \E id \in EmailIds :
        /\ jobs[id].state = "none"
        /\ \A o \in EmailIds : o[2] < id[2] => jobs[o].state # "none"
        /\ jobs' = AddJob(jobs, id, EmailAttempts, BackoffDelay, clock)
        /\ wait' = Append(wait, id)
    /\ UNCHANGED <<clock, workers, repeat>>
    /\ UNCHANGED <<cacheVars, limiter, hits, inflight, answer, dbVars>>

\* dataProcessingQueue.add('calculate-analytics', {}, { repeat: { cron },
\* removeOnComplete: true }): registers the repeatable job and adds its next
\* instance, delayed until the next firing, under the id of that firing
AddNextRepeatableJob(js) ==
    AddJob(js, <<"repeat", NextMillis(clock)>>, DefaultAttempts, 0, NextMillis(clock))

\* scheduleCleanup(): the function writes its log line and adds nothing to
\* the queue, so the repeatable jobs registered are those it was given
ScheduleCleanup(rs) == rs

\* a server process starts: scheduleAnalytics(); scheduleCleanup();
\* (server.js) and the process becomes a worker of the queue
StartServer(p) ==
    /\ ~workers[p].up
    /\ NextMillis(clock) <= (MaxCronTicks + 1) * CronPeriodMs
    /\ workers' = [workers EXCEPT ![p] = IdleWorker]
    /\ repeat' = ScheduleCleanup(repeat \cup {"calculate-analytics"})
    /\ jobs' = AddNextRepeatableJob(jobs)
    /\ UNCHANGED <<clock, wait>>
    /\ UNCHANGED <<cacheVars, limiter, hits, inflight, answer, dbVars>>

\* a server process starts, seen from the email queue
StartWorker(p) ==
    /\ ~workers[p].up
    /\ workers' = [workers EXCEPT ![p] = IdleWorker]
    /\ UNCHANGED <<clock, jobs, wait, repeat>>
    /\ UNCHANGED <<cacheVars, limiter, hits, inflight, answer, dbVars>>

\* the delay of a job is over: it moves to the wait list
Promote(id) ==
    /\ jobs[id].state = "delayed"
    /\ jobs[id].delayUntil <= clock
    /\ jobs' = [jobs EXCEPT ![id].state = "waiting"]
    /\ wait' = Append(wait, id)
    /\ UNCHANGED <<clock, workers, repeat>>
    /\ UNCHANGED <<cacheVars, limiter, hits, inflight, answer, dbVars>>

\* an idle worker takes the job at the head of the wait list: the job
\* becomes active under the worker's lock and the handler starts; a
\* repeatable job first adds its next instance
Take(p) ==
    /\ workers[p].up
    /\ workers[p].job = NoId
    /\ wait # <<>>
    /\ LET id == Head(wait)
           js == [jobs EXCEPT ![id].state = "active", ![id].lockedBy = p,
                              ![id].lockUntil = clock + LockDuration]
       IN /\ jobs' = IF id[1] = "repeat" /\ "calculate-analytics" \in repeat
                     THEN AddNextRepeatableJob(js) ELSE js
          /\ workers' = [workers EXCEPT ![p] =
                            [up |-> TRUE, job |-> id, doneAt |-> clock + HandlerMs]]
    /\ wait' = Tail(wait)
    /\ UNCHANGED <<clock, repeat>>
    /\ UNCHANGED <<cacheVars, limiter, hits, inflight, answer, dbVars>>

\* the job after its handler has thrown: one more attempt made, then
\* either delayed for a retry or failed with the error recorded
MoveToFailed(job, msg) ==
    LET made == job.attemptsMade + 1
        delay == Backoff(job.backoff, made)
    IN IF ShouldRetry(job, made)
       THEN [job EXCEPT !.attemptsMade = made, !.lockedBy = 0, !.lockUntil = 0,
                        !.state = IF delay > 0 THEN "delayed" ELSE "waiting",
                        !.delayUntil = clock + delay]
       ELSE [job EXCEPT !.attemptsMade = made, !.lockedBy = 0, !.lockUntil = 0,
                        !.state = "failed", !.failedReason = msg]

\* the handler of the job a worker holds settles: it returns (the job is
\* completed and, with removeOnComplete, removed) or it throws
Settle(p, ok) ==
    /\ workers[p].up
    /\ workers[p].job # NoId
    /\ workers[p].doneAt <= clock
    /\ LET id == workers[p].job
           job == jobs[id]
           next == IF ok
                   THEN [job EXCEPT !.state = "completed", !.lockedBy = 0, !.lockUntil = 0]
                   ELSE MoveToFailed(job, "handler error")
       IN /\ jobs' = [jobs EXCEPT ![id] = next]
          /\ wait' = IF next.state = "waiting" THEN Append(wait, id) ELSE wait
    /\ workers' = [workers EXCEPT ![p] = IdleWorker]
    /\ UNCHANGED <<clock, repeat>>
    /\ UNCHANGED <<cacheVars, limiter, hits, inflight, answer, dbVars>>

\* a server process dies; the job it held stays active until its lock is
\* found expired
Crash(p) ==
    /\ workers[p].up
    /\ workers' = [workers EXCEPT ![p] = DownWorker]
    /\ UNCHANGED <<clock, jobs, wait, repeat>>
    /\ UNCHANGED <<cacheVars, limiter, hits, inflight, answer, dbVars>>

\* the stalled-jobs check of a live worker finds an active job whose lock
\* has expired: the job goes back to the wait list, or fails once it has
\* stalled more than maxStalledCount times
StalledCheck(id) ==
    /\ \E p \in Procs : workers[p].up
    /\ jobs[id].state = "active"
    /\ jobs[id].lockUntil <= clock
    /\ LET n == jobs[id].stalledCount + 1
       IN IF n > MaxStalledCount
          THEN /\ jobs' = [jobs EXCEPT ![id].state = "failed", ![id].stalledCount = n,
                                       ![id].lockedBy = 0, ![id].lockUntil = 0,
                                       ![id].failedReason =
                                            "job stalled more than allowable limit"]
               /\ wait' = wait
          ELSE /\ jobs' = [jobs EXCEPT ![id].state = "waiting", ![id].stalledCount = n,
                                       ![id].lockedBy = 0, ![id].lockUntil = 0]
               /\ wait' = Append(wait, id)
    /\ UNCHANGED <<clock, workers, repeat>>
    /\ UNCHANGED <<cacheVars, limiter, hits, inflight, answer, dbVars>>

\* the times at which something is due
Timers ==
    {jobs[id].delayUntil : id \in {i \in JobIds : jobs[i].state = "delayed"}}
    \cup {jobs[id].lockUntil : id \in {i \in JobIds : jobs[i].state = "active"}}
    \cup {workers[p].doneAt : p \in {q \in Procs : workers[q].up /\ workers[q].job # NoId}}

\* time passes up to the next due time; a handler that is due settles first
Advance ==
    /\ \A p \in Procs :
            (workers[p].up /\ workers[p].job # NoId) => clock < workers[p].doneAt
    /\ \E d \in Timers :
        /\ d > clock
        /\ \A e \in Timers : e > clock => d <= e
        /\ d < (MaxCronTicks + 1) * CronPeriodMs
        /\ clock' = d
    /\ UNCHANGED <<jobs, wait, workers, repeat>>
    /\ UNCHANGED <<cacheVars, limiter, hits, inflight, answer, dbVars>>

----------------------------------------------------------------------------
\* POST /api/auth/register

\* what the form holds: a valid form, terms not accepted, or passwords that
\* do not match
Forms == {"valid", "no_terms", "mismatch"}

RegisterUrl == <<"/api/auth/register">>

\* sendTokenResponse(user, 201, res): the token and the user
TokenBody(w) == [success |-> TRUE, token |-> w, user |-> w]

\* the checks of the form and of the username, then User.create: the
\* document is stored and the handler goes on to sendEmail, or the create
\* rejects and the error goes to errorHandler
Register(s, w, form, createOk) ==
    /\ reqs[s].pc = "idle"
    /\ LET r == [IdleReq EXCEPT !.method = "POST", !.url = RegisterUrl, !.user = w]
       IN IF form # "valid"
          THEN /\ reqs' = [reqs EXCEPT ![s] =
                    [r EXCEPT !.pc = "done", !.status = 400,
                              !.body = ErrorBody(IF form = "no_terms"
                                                 THEN "You must accept terms and conditions"
                                                 ELSE "Passwords do not match")]]
               /\ users' = users
          ELSE IF users[w] # NoDoc
          THEN /\ reqs' = [reqs EXCEPT ![s] =
                    [r EXCEPT !.pc = "done", !.status = 409,
                              !.body = ErrorBody("Username or email already exists")]]
               /\ users' = users
          ELSE IF ~createOk
          THEN /\ reqs' = [reqs EXCEPT ![s] =
                    [r EXCEPT !.pc = "done", !.status = 500, !.body = ErrorBody(DbMessage)]]
               /\ users' = users
          ELSE /\ reqs' = [reqs EXCEPT ![s] = [r EXCEPT !.pc = "enqueue"]]
               /\ users' = [users EXCEPT ![w] = NewDoc(w)]
    /\ UNCHANGED <<now, redis, nodeCache>>
    /\ UNCHANGED <<limiterVars, queueVars>>

\* [variant] a handler that does not wait for the enqueue: it goes on to
\* the token although no job was added
EnqueueIgnored(r) == [r EXCEPT !.pc = "token"]

\* emailQueue.add rejects: sendEmail logs and rethrows, the route's catch
\* calls next(error) and the request ends in the error answer
EnqueueFailed(r) ==
    [r EXCEPT !.pc = "done", !.status = 500, !.body = ErrorBody("Failed to queue email")]

\* await sendEmail({ to: user.email, ..., type: 'welcome' }): the job is
\* added to the queue under the next id, or the add rejects
RegisterEnqueue(s, addOk) ==
    /\ reqs[s].pc = "enqueue"
    /\ IF addOk
       THEN \E id \in EmailIds :
              /\ jobs[id].state = "none"
              /\ \A o \in EmailIds : o[2] < id[2] => jobs[o].state # "none"
              /\ jobs' = [AddJob(jobs, id, EmailAttempts, BackoffDelay, clock)
                             EXCEPT ![id].to = reqs[s].user]
              /\ wait' = Append(wait, id)
              /\ reqs' = [reqs EXCEPT ![s].pc = "token", ![s].job = id]
       ELSE /\ reqs' = [reqs EXCEPT ![s] = EnqueueFailed(reqs[s])]
            /\ UNCHANGED <<jobs, wait>>
    /\ UNCHANGED <<now, redis, nodeCache>>
    /\ UNCHANGED <<clock, workers, repeat>>
    /\ UNCHANGED <<limiter, hits, inflight, answer, dbVars>>

\* sendTokenResponse(user, 201, res)
RegisterRespond(s) ==
    /\ reqs[s].pc = "token"
    /\ reqs' = [reqs EXCEPT ![s].pc = "done", ![s].status = 201,
                            ![s].body = TokenBody(reqs[s].user)]
    /\ UNCHANGED <<now, redis, nodeCache>>
    /\ UNCHANGED <<limiterVars, queueVars, dbVars>>

----------------------------------------------------------------------------
\* the server after start, before the first request
InitCache ==
    /\ now = 0
    /\ redis = {}
    /\ nodeCache = [k \in GatewayKeys |-> NoEntry]
    /\ reqs = [s \in Slots |-> IdleReq]

\* the limiters before the first request: no client has a window
InitLimiter ==
    /\ clock = 0
    /\ limiter \in Limiters
    /\ hits = NoWindow
    /\ inflight = [good |-> 0, bad |-> 0]
    /\ answer = NoAnswer

\* the queues before the first job, the users collection as seeded
InitQueue ==
    /\ jobs = [id \in JobIds |-> NoJob]
    /\ wait = <<>>
    /\ workers = [p \in Procs |-> DownWorker]
    /\ repeat = {}
    /\ users = [w \in Accounts |-> IF w \in Users THEN NewDoc(w) ELSE NoDoc]

Init ==
    /\ InitCache
    /\ InitLimiter
    /\ limiter = "apiLimiter"
    /\ InitQueue

Next ==
    \/ \E s \in Slots, m \in Methods, u \in Urls, storeOk \in BOOLEAN :
            CacheMiddleware(s, Operator, m, u, storeOk)
    \/ \E s \in Slots : Handler(s)
    \/ \E s \in Slots, o \in Outcomes, viaJson \in BOOLEAN, writeOk \in BOOLEAN :
            AxiosReturn(s, o, viaJson, writeOk)
    \/ \E s \in Slots, saveOk \in BOOLEAN, viaJson \in BOOLEAN, writeOk \in BOOLEAN :
            SaveAndRespond(s, saveOk, viaJson, writeOk)
    \/ \E s \in Slots : Finish(s)
    \/ \E s \in Slots, p \in Patterns, storeOk \in BOOLEAN :
            ClearCacheKeys(s, Operator, p, storeOk)
    \/ \E s \in Slots, storeOk \in BOOLEAN : ClearCacheDel(s, storeOk)
    \/ Tick
    \/ RedisEvict
    \/ NodeCacheCheck

Spec == Init /\ [][Next]_vars

\* The same server with every request served within one tick of the clock
\* (the provider calls time out after 5000 ms): time passes only between
\* requests.
QuietTick ==
    /\ \A s \in Slots : reqs[s].pc \in {"idle", "done"}
    /\ Tick

NextServed ==
    \/ \E s \in Slots, m \in Methods, u \in Urls, storeOk \in BOOLEAN :
            CacheMiddleware(s, Operator, m, u, storeOk)
    \/ \E s \in Slots : Handler(s)
    \/ \E s \in Slots, o \in Outcomes, viaJson \in BOOLEAN, writeOk \in BOOLEAN :
            AxiosReturn(s, o, viaJson, writeOk)
    \/ \E s \in Slots, saveOk \in BOOLEAN, viaJson \in BOOLEAN, writeOk \in BOOLEAN :
            SaveAndRespond(s, saveOk, viaJson, writeOk)
    \/ \E s \in Slots : Finish(s)
    \/ \E s \in Slots, p \in Patterns, storeOk \in BOOLEAN :
            ClearCacheKeys(s, Operator, p, storeOk)
    \/ \E s \in Slots, storeOk \in BOOLEAN : ClearCacheDel(s, storeOk)
    \/ QuietTick
    \/ RedisEvict
    \/ NodeCacheCheck

SpecServed == Init /\ [][NextServed]_vars

\* The same server on a Redis that holds the keys of the two queues
InitShared ==
    /\ now = 0
    /\ redis = QueueEntries
    /\ nodeCache = [k \in GatewayKeys |-> NoEntry]
    /\ reqs = [s \in Slots |-> IdleReq]
    /\ InitLimiter
    /\ limiter = "apiLimiter"
    /\ InitQueue

SpecShared == InitShared /\ [][NextServed]_vars

\* The cached weather route and the admin route asked by the seeded users,
\* with the users collection followed
NextIdentity ==
    \/ \E s \in Slots, w \in Users, m \in Methods, storeOk \in BOOLEAN :
            Arrive(s, w, m, WeatherUrl, storeOk)
    \/ \E s \in Slots : Handler(s)
    \/ \E s \in Slots, o \in Outcomes, viaJson \in BOOLEAN, writeOk \in BOOLEAN :
            AxiosReturn(s, o, viaJson, writeOk)
    \/ \E s \in Slots, saveOk \in BOOLEAN : UserSave(s, saveOk)
    \/ \E s \in Slots, viaJson \in BOOLEAN, writeOk \in BOOLEAN :
            RespondSaved(s, viaJson, writeOk)
    \/ \E s \in Slots : Finish(s)
    \/ \E s \in Slots, w \in Users, p \in Patterns, storeOk \in BOOLEAN :
            ClearCacheKeys(s, w, p, storeOk)
    \/ \E s \in Slots, storeOk \in BOOLEAN : ClearCacheDel(s, storeOk)
    \/ QuietTick
    \/ RedisEvict
    \/ NodeCacheCheck

SpecIdentity == Init /\ [][NextIdentity]_vars

\* The weather route with its limiter, asked by one client
InitRoute ==
    /\ InitCache
    /\ InitLimiter
    /\ limiter = "externalApiLimiter"
    /\ InitQueue

NextRoute ==
    \/ \E s \in Slots, m \in Methods, storeOk \in BOOLEAN : RouteArrive(s, m, storeOk)
    \/ \E s \in Slots, writeOk \in BOOLEAN : ExternalApiLimit(s, writeOk)
    \/ \E s \in Slots : LimitedHandler(s)
    \/ \E s \in Slots, o \in Outcomes, viaJson \in BOOLEAN, writeOk \in BOOLEAN :
            AxiosReturn(s, o, viaJson, writeOk)
    \/ \E s \in Slots, saveOk \in BOOLEAN, viaJson \in BOOLEAN, writeOk \in BOOLEAN :
            SaveAndRespond(s, saveOk, viaJson, writeOk)
    \/ \E s \in Slots : Finish(s)
    \/ RouteTick
    \/ RedisEvict
    \/ NodeCacheCheck

SpecRoute == InitRoute /\ [][NextRoute]_vars

\* Registrations, the email queue and its workers
NextRegister ==
    \/ \E s \in Slots, w \in Accounts, form \in Forms, createOk \in BOOLEAN :
            Register(s, w, form, createOk)
    \/ \E s \in Slots, addOk \in BOOLEAN : RegisterEnqueue(s, addOk)
    \/ \E s \in Slots : RegisterRespond(s)
    \/ \E s \in Slots : Finish(s)
    \/ \E p \in Procs : StartWorker(p)
    \/ \E id \in JobIds : Promote(id)
    \/ \E p \in Procs : Take(p)
    \/ \E p \in Procs, ok \in BOOLEAN : Settle(p, ok)
    \/ Advance

SpecRegister == Init /\ [][NextRegister]_vars

\* The news route asked with its two query parameters, in either order
NextQuery ==
    \/ \E s \in Slots, m \in Methods, u \in QueryUrls, storeOk \in BOOLEAN :
            CacheMiddleware(s, Operator, m, u, storeOk)
    \/ \E s \in Slots : Handler(s)
    \/ \E s \in Slots, o \in Outcomes, viaJson \in BOOLEAN, writeOk \in BOOLEAN :
            AxiosReturn(s, o, viaJson, writeOk)
    \/ \E s \in Slots, saveOk \in BOOLEAN, viaJson \in BOOLEAN, writeOk \in BOOLEAN :
            SaveAndRespond(s, saveOk, viaJson, writeOk)
    \/ \E s \in Slots : Finish(s)
    \/ QuietTick
    \/ RedisEvict
    \/ NodeCacheCheck

SpecQuery == Init /\ [][NextQuery]_vars

\* The traffic of one client through one of the limiters
InitLimiters ==
    /\ InitCache
    /\ InitLimiter
    /\ InitQueue

NextLimiter ==
    \/ \E ok \in BOOLEAN : RateLimit(ok)
    \/ \E ok \in BOOLEAN : RouteAnswers(ok)
    \/ StoreReset
    \/ LimiterTick

SpecLimiter == InitLimiters /\ [][NextLimiter]_vars

\* The email queue and its workers
NextQueue ==
    \/ SendEmail
    \/ \E p \in Procs : StartWorker(p)
    \/ \E id \in JobIds : Promote(id)
    \/ \E p \in Procs : Take(p)
    \/ \E p \in Procs, ok \in BOOLEAN : Settle(p, ok)
    \/ \E p \in Procs : Crash(p)
    \/ \E id \in JobIds : StalledCheck(id)
    \/ Advance

SpecQueue == Init /\ [][NextQueue]_vars

\* The data-processing queue, its repeatable job and its workers
NextScheduler ==
    \/ \E p \in Procs : StartServer(p)
    \/ \E id \in JobIds : Promote(id)
    \/ \E p \in Procs : Take(p)
    \/ \E p \in Procs, ok \in BOOLEAN : Settle(p, ok)
    \/ \E p \in Procs : Crash(p)
    \/ \E id \in JobIds : StalledCheck(id)
    \/ Advance

SpecScheduler == Init /\ [][NextScheduler]_vars

----------------------------------------------------------------------------
\* Steps of a request, as the properties below observe them

\* the step in which cacheMiddleware takes a GET request in slot s
Looks(s) == reqs[s].pc = "idle" /\ reqs'[s].pc # "idle" /\ reqs'[s].method = "GET"

\* the step in which the handler of the request in slot s answers
Responds(s) == reqs[s].pc \in {"axios", "save"} /\ reqs'[s].pc = "done"

\* the entries of key k whose expiry has not passed
LiveEntries(k) == {e \in redis : e.key = k /\ now < e.exp}

\* a hit's body without the two annotations the middleware adds
Returned(b) == [f \in DOMAIN b \ {"cached", "cacheKey"} |-> b[f]]

----------------------------------------------------------------------------
\* C1: GET /api/external/weather/Mumbai.  With no live entry under its key
\* the request is a cache miss; with no NodeCache entry for the city either
\* it issues one provider call, and its 200 answer carries no cached mark
\* and is stored under the key with expiry now + 600 (unless the store
\* rejects the write).  With a live entry (so within 600 s of that write)
\* the request is a hit: answered at once, no provider call, cached: true.
C1Step(s) ==
    LET r == reqs[s]
        q == reqs'[s]
        k == CacheKey(WeatherUrl)
        nc == nodeCache["weather_Mumbai"]
    IN /\ (Looks(s) /\ q.url = WeatherUrl /\ q.lookup # "err") =>
            IF LiveEntries(k) = {}
            THEN q.lookup = "miss" /\ q.pc = "handler" /\ q.providerCalls = 0
            ELSE /\ q.lookup = "hit" /\ q.pc = "done" /\ q.status = 200
                 /\ q.providerCalls = 0
                 /\ q.body.cached = TRUE
       /\ (/\ r.pc = "handler" /\ q.pc # "handler"
           /\ r.url = WeatherUrl /\ r.lookup = "miss"
           /\ (nc = NoEntry \/ nc.exp <= now)) =>
            q.pc = "axios" /\ q.providerCalls = 1
       /\ (/\ r.pc = "save" /\ q.pc = "done" /\ q.status = 200
           /\ r.url = WeatherUrl /\ r.lookup = "miss" /\ r.gw = "fresh") =>
            /\ q.providerCalls = 1
            /\ "cached" \notin DOMAIN q.body
            /\ "cached" \notin DOMAIN q.body.data
            /\ q.setex # "failed" =>
                 [key |-> k, val |-> JsonStringify(q.body), exp |-> now + WeatherTTL]
                     \in redis'

----------------------------------------------------------------------------
\* C2: every entry of the request cache is the body of a successful provider
\* call, and every entry of the gateway's NodeCache is provider data.
C2_NoErrorCached ==
    /\ \A e \in redis : JsonParse(e.val).success = TRUE
    /\ \A k \in GatewayKeys : nodeCache[k] # NoEntry => nodeCache[k].val.src = k

----------------------------------------------------------------------------
\* C3: a write puts the body under the key with expiry now + ttl; a lookup
\* made while an entry of the key has not reached its expiry is a hit that
\* returns the entry's value (plus the two annotations); a lookup made when
\* the expiry has passed is a miss, whether or not the entry was evicted.
C3Step(s) ==
    LET q == reqs'[s]
        k == CacheKey(q.url)
    IN /\ (Looks(s) /\ q.lookup # "err") =>
            IF \E e \in redis : e.key = k /\ now < e.exp
            THEN /\ q.lookup = "hit"
                 /\ \A e \in redis : e.key = k => Returned(q.body) = JsonParse(e.val)
            ELSE q.lookup = "miss" /\ q.body = NoBody
       /\ (Responds(s) /\ q.setex \in {"stored", "replaced"}) =>
            \E e \in redis' :
                /\ e.key = k
                /\ e.val = JsonStringify(q.body)
                /\ e.exp = now + RouteDuration(q.url)

C3_SetThenGet == [][\A s \in Slots : C3Step(s)]_vars

\* a lookup that missed although the store still holds the expired entry
C3_Witness ==
    \E s \in Slots :
        /\ reqs[s].pc = "handler" /\ reqs[s].lookup = "miss"
        /\ \E e \in redis : e.key = CacheKey(reqs[s].url) /\ e.exp <= now

----------------------------------------------------------------------------
\* C4: an answer that carries provider data carries data fetched from the
\* provider no longer ago than the duration of its route (weather 600 s,
\* news 300 s, exchange rates 3600 s, GitHub 1800 s).  Checked where every
\* request is served within one tick of the clock (SpecServed), so that the
\* age of the data is not the time a request itself took.
C4Step(s) ==
    LET q == reqs'[s]
    IN (/\ reqs[s].pc # "done" /\ q.pc = "done"
        /\ q.method \in Methods
        /\ "data" \in DOMAIN q.body) =>
            now - q.body.data.at <= RouteDuration(q.url)

C4_DataWithinDuration == [][\A s \in Slots : C4Step(s)]_vars

----------------------------------------------------------------------------
\* C5: no step of a request whose method is not GET adds an entry to the
\* request cache or changes one, and a request that cacheMiddleware passes
\* on because it is not a GET leaves the store as it was, whatever its
\* handler answers.
ActingMethod(s) == IF reqs[s].pc = "idle" THEN reqs'[s].method ELSE reqs[s].method

C5Step(s) ==
    (reqs'[s] # reqs[s] /\ ActingMethod(s) # "GET") =>
        /\ redis' \subseteq redis
        /\ ActingMethod(s) = "HEAD" => redis' = redis

C5_NonGetNeverPopulates == [][\A s \in Slots : C5Step(s)]_vars

\* a HEAD request answered 200 with fresh provider data, the store empty
C5_Witness ==
    \E s \in Slots :
        /\ reqs[s].pc = "done" /\ reqs[s].method = "HEAD"
        /\ reqs[s].status = 200 /\ reqs[s].gw = "fresh"
        /\ redis = {}

----------------------------------------------------------------------------
\* C6: when the store rejects the write of the body the handler computed,
\* the answer is the handler's all the same (200 with the computed data, or
\* the handler's own failure of req.user.save()), and the store is as it was.
C6Step(s) ==
    LET r == reqs[s]
        q == reqs'[s]
    IN (r.pc = "save" /\ q.pc = "done" /\ q.setex = "failed") =>
            /\ redis' = redis
            /\ \/ q.status = 200 /\ q.body = SuccessBody(r.data)
               \/ q.status = 500 /\ q.body = ErrorBody(DbMessage)

C6_WriteFailOpen == [][\A s \in Slots : C6Step(s)]_vars

\* a miss answered 200 with fresh data although the write was rejected
C6_Witness ==
    \E s \in Slots :
        /\ reqs[s].pc = "done" /\ reqs[s].lookup = "miss"
        /\ reqs[s].setex = "failed" /\ reqs[s].gw = "fresh"
        /\ reqs[s].status = 200 /\ reqs[s].body = SuccessBody(reqs[s].data)
        /\ \A e \in redis : e.key # CacheKey(reqs[s].url)

----------------------------------------------------------------------------
\* C7: a request whose cache lookup was rejected by the store is passed to
\* its handler exactly once with res.json untouched, and its answer is the
\* handler's: 200 with the data, or the handler's own failure.
C7_ReadFailOpen ==
    \A s \in Slots :
        LET r == reqs[s]
        IN r.lookup = "err" =>
            /\ r.nextCalls = 1
            /\ r.pc \in {"handler", "axios", "save", "done"}
            /\ ~r.wrapped /\ r.setex = "none"
            /\ r.pc = "done" =>
                \/ /\ r.status = 200 /\ r.gw \in {"fresh", "cached"}
                   /\ r.body = SuccessBody(r.data)
                \/ /\ r.status = 500 /\ r.gw \in {"fresh", "cached"}
                   /\ r.body = ErrorBody(DbMessage)
                \/ /\ r.status = 500 /\ r.gw = "failed"
                   /\ \E o \in Outcomes \ {"ok"} :
                        r.body = ErrorBody(GatewayError(r.url, o))

\* a request answered 200 by its handler after the lookup failed
C7_Witness ==
    \E s \in Slots :
        /\ reqs[s].pc = "done" /\ reqs[s].lookup = "err"
        /\ reqs[s].status = 200 /\ reqs[s].gw = "fresh"
        /\ reqs[s].nextCalls = 1

----------------------------------------------------------------------------
\* C8: clearCache(pattern) lists the live keys that match cache:<pattern>
\* and its DEL removes the entries of exactly those keys; every entry whose
\* key does not match keeps its value and its expiry.
C8Step(s) ==
    LET r == reqs[s]
        q == reqs'[s]
        Matches(p, k) == GlobMatch(<<"cache:">> \o p, k)
    IN /\ (r.pc = "idle" /\ q.method = "DELETE" /\ q.status # 500) =>
            /\ redis' = redis
            /\ LET ks == {e.key : e \in {x \in redis : now < x.exp /\ Matches(q.pattern, x.key)}}
               IN IF ks = {} THEN q.pc = "done" /\ q.keys = {}
                  ELSE q.pc = "del" /\ q.keys = ks
       /\ (r.pc = "del" /\ q.pc = "done" /\ q.status = 200) =>
            /\ \A k \in r.keys : Matches(r.pattern, k)
            /\ \A e \in redis : ~Matches(r.pattern, e.key) => e \in redis'
            /\ \A e \in redis : e.key \in r.keys => e \notin redis'
            /\ redis' = {e \in redis : e.key \notin r.keys}

C8_InvalidateExactlyMatching == [][\A s \in Slots : C8Step(s)]_vars

\* *weather* has removed the weather entry and the news entry is still live
C8_Witness ==
    \E s \in Slots :
        /\ reqs[s].pc = "done" /\ reqs[s].method = "DELETE"
        /\ reqs[s].pattern = <<"*", "weather", "*">>
        /\ reqs[s].status = 200 /\ reqs[s].removed = 1
        /\ \E e \in redis : e.key = CacheKey(NewsUrl) /\ now < e.exp
        /\ \A e \in redis : e.key # CacheKey(WeatherUrl)

----------------------------------------------------------------------------
\* C9: clearCache returns the number of entries it removed from the store;
\* when no key matches it returns 0, raises nothing and leaves the store as
\* it was.
C9Step(s) ==
    LET r == reqs[s]
        q == reqs'[s]
    IN /\ (r.pc = "del" /\ q.pc = "done" /\ q.status = 200) =>
            q.count = Cardinality(redis \ redis')
       /\ (r.pc = "idle" /\ q.method = "DELETE" /\ q.pc = "done" /\ q.status = 200) =>
            q.count = 0 /\ redis' = redis

C9_ReturnsNumberRemoved == [][\A s \in Slots : C9Step(s)]_vars

----------------------------------------------------------------------------
\* C10: a write to a key leaves the store with exactly one entry of that
\* key, holding the value just written, also when the key held an entry;
\* no key ever has two entries.
C10Step(s) ==
    LET q == reqs'[s]
        k == CacheKey(q.url)
    IN /\ (Responds(s) /\ q.setex \in {"stored", "replaced"}) =>
            {e \in redis' : e.key = k} =
                {[key |-> k, val |-> JsonStringify(q.body),
                  exp |-> now + RouteDuration(q.url)]}
       /\ \A e1, e2 \in redis' : e1.key = e2.key => e1 = e2

C10_SetOverwrites == [][\A s \in Slots : C10Step(s)]_vars

\* a write that replaced the entry its key held: one entry, the new value
C10_Witness ==
    \E s \in Slots :
        /\ reqs[s].pc = "done" /\ reqs[s].setex = "replaced"
        /\ \E e \in redis :
            /\ {x \in redis : x.key = CacheKey(reqs[s].url)} = {e}
            /\ e.val = JsonStringify(reqs[s].body)

----------------------------------------------------------------------------
\* C11: the cache key is derived from method, path and the sorted query
\* parameters, so two GET requests to the same path whose query parameters
\* are equal but written in a different order map to the same key: a GET
\* that finds the store reachable while a live entry was stored by a request
\* for the same operation is a hit.

\* the path of a URL and the set of its query parameters
PathOf(url) == SubSeq(url, 1, 2)
QueryOf(url) == {url[i] : i \in {j \in 3..Len(url) : url[j] \notin {"?", "&"}}}
SameOperation(u, v) == PathOf(u) = PathOf(v) /\ QueryOf(u) = QueryOf(v)

C11Step(s) ==
    (/\ Looks(s)
     /\ reqs'[s].lookup \in {"hit", "miss"}
     /\ \E e \in redis, v \in QueryUrls :
            /\ Live(e)
            /\ e.key = CacheKey(v)
            /\ SameOperation(v, reqs'[s].url))
    => reqs'[s].lookup = "hit"

C11_SameKeyForReorderedQuery == [][\A s \in Slots : C11Step(s)]_vars

----------------------------------------------------------------------------
\* Steps of a limiter, as the properties below observe them

\* the limiter passes a request on to its route
Admits == inflight'.good + inflight'.bad = inflight.good + inflight.bad + 1

\* the limiter answers a request itself
Rejects == inflight' = inflight /\ hits' # hits /\ hits' # NoWindow

\* the requests counted in the open window
Count(h) == IF WindowOpen(h) THEN h.totalHits ELSE 0

----------------------------------------------------------------------------
\* C12: externalApiLimiter, limit 10 per 60000 ms.  A call that arrives in
\* the open window of its client is counted in it, and it is admitted if it
\* is one of the first 10 of the window and rejected from the 11th on; a call
\* that arrives 60000 ms or more after the first call of the last window
\* (61000 ms, say) is admitted and opens a fresh window with count 1.
C12Step ==
    (limiter = "externalApiLimiter" /\ (Admits \/ Rejects))
    => IF hits # NoWindow /\ clock < hits.resetTime
       THEN /\ hits'.resetTime = hits.resetTime
            /\ hits'.totalHits = hits.totalHits + 1
            /\ Admits <=> hits.totalHits < ExternalMax
            /\ Rejects => answer'.status = 429
       ELSE /\ Admits
            /\ hits'.totalHits = 1
            /\ hits'.resetTime = clock + ExternalWindowMs

C12_TenPerMinuteThenFresh == [][C12Step]_vars

\* the 11th call of the first window was rejected, and a call after the
\* window's end has opened the second window
C12_Witness ==
    /\ limiter = "externalApiLimiter"
    /\ answer # NoAnswer
    /\ answer.status = 429
    /\ hits # NoWindow
    /\ hits.totalHits = 1
    /\ hits.resetTime >= 2 * ExternalWindowMs
    /\ clock < hits.resetTime

----------------------------------------------------------------------------
\* C13: authLimiter, limit 5.  An attempt that turns out successful is not
\* counted at any point, so an attempt is rejected exactly when 5 attempts
\* of the open window were not successful (failed, or rejected themselves):
\* after 5 failed attempts the 6th is rejected, and attempts that succeed
\* never cause a rejection.
C13Step ==
    (limiter = "authLimiter" /\ (Admits \/ Rejects))
    => (Rejects <=> Count(hits) - inflight.good >= AuthMax)

C13_SuccessNeverCounted == [][C13Step]_vars

----------------------------------------------------------------------------
\* C14: every rate-limit rejection, of each of the three limiters, carries
\* the time at which the window resets: a 429 answer has a retryAfter field
\* in its body.
C14_RejectionCarriesReset ==
    (answer # NoAnswer /\ answer.status = 429)
    => "retryAfter" \in DOMAIN answer.body

----------------------------------------------------------------------------
\* C15: for every limiter, the count of a window never decreases while the
\* window is open, and a new window begins exactly windowMs after the start
\* of the previous one: a request before that time is counted in the old
\* window, a request from that time on starts from count 0.
C15Step ==
    /\ (WindowOpen(hits) /\ hits' # NoWindow /\ hits'.resetTime = hits.resetTime)
       => hits'.totalHits >= hits.totalHits
    /\ ((Admits \/ Rejects) /\ hits # NoWindow)
       => IF clock < hits.resetTime
          THEN hits'.resetTime = hits.resetTime
          ELSE /\ hits'.totalHits = 1
               /\ hits'.resetTime = clock + WindowMs(limiter)

C15_CountMonotoneInWindow == [][C15Step]_vars

----------------------------------------------------------------------------
\* C16: increments are atomic under any interleaving.  Whatever requests of
\* the same client are being handled, a request that arrives in the open
\* window raises the count by exactly one and is admitted exactly if the
\* count it raised does not exceed the limit, so that k concurrent
\* requests raise the count by k and at most `limit` of them are admitted.
C16Step ==
    ((Admits \/ Rejects) /\ WindowOpen(hits))
    => /\ hits'.totalHits = hits.totalHits + 1
       /\ Admits <=> hits'.totalHits <= Max(limiter)
       /\ Admits => inflight'.good + inflight'.bad <= Max(limiter)

----------------------------------------------------------------------------
\* Steps of a job, as the properties below observe them

\* the handler of job id throws in this step
HandlerFails(id) ==
    /\ jobs[id].state = "active"
    /\ jobs'[id].attemptsMade = jobs[id].attemptsMade + 1

\* job id starts an execution in this step
Starts(id) == jobs[id].state # "active" /\ jobs'[id].state = "active"

----------------------------------------------------------------------------
\* C17: an email job (attempts 3, exponential backoff, delay 2000 ms) whose
\* handler fails every time is executed exactly 3 times.  After its n-th
\* failure, n < 3, it is not failed but waits for its n-th retry, which
\* does not start earlier than 2000 * 2^(n-1) ms after the failure; its
\* third failure leaves it failed with the error recorded, and a job that
\* has failed 3 times is never executed again.
C17Step(id) ==
    /\ HandlerFails(id) =>
        LET n == jobs'[id].attemptsMade
        IN IF n < 3
           THEN /\ jobs'[id].state = "delayed"
                /\ jobs'[id].delayUntil >= clock + 2000 * 2 ^ (n - 1)
           ELSE /\ n = 3
                /\ jobs'[id].state = "failed"
                /\ jobs'[id].failedReason # ""
    /\ (jobs[id].state = "delayed" /\ jobs'[id].state # "delayed")
        => clock >= jobs[id].delayUntil
    /\ Starts(id) => jobs[id].state = "waiting" /\ jobs[id].attemptsMade < 3

C17_ThreeAttemptsWithBackoff == [][\A id \in EmailIds : C17Step(id)]_vars

\* a job that never stalled has failed three times: two retries, then failed
C17_Witness ==
    \E id \in EmailIds :
        /\ jobs[id].state = "failed"
        /\ jobs[id].attemptsMade = 3
        /\ jobs[id].stalledCount = 0
        /\ jobs[id].failedReason = "handler error"
        /\ clock >= 3 * HandlerMs + 2000 + 4000

----------------------------------------------------------------------------
\* C18: in every reachable state every job has made at most as many
\* attempts as its options allow, and a job that is completed or failed
\* never changes again.
C18Step(id) ==
    /\ jobs[id].state # "none" => jobs[id].attemptsMade <= jobs[id].attempts
    /\ jobs[id].state \in {"completed", "failed"} => jobs'[id] = jobs[id]

C18_AttemptsBoundedTerminalFinal == [][\A id \in JobIds : C18Step(id)]_vars

\* one job has completed and another has used up its attempts, and time has
\* passed since
C18_Witness ==
    \E a, b \in EmailIds :
        /\ jobs[a].state = "completed"
        /\ jobs[b].state = "failed"
        /\ jobs[b].attemptsMade = jobs[b].attempts
        /\ \E p \in Procs : workers[p].up
        /\ wait = <<>>

----------------------------------------------------------------------------
\* C19: at most one worker executes a given job at any time: no two live
\* workers hold the same job, a worker starts only a job that is waiting
\* (never one that is active under another worker's lock), and a job whose
\* lock has expired returns to waiting.
C19Step(id) ==
    /\ \A p, q \in Procs :
            (p # q /\ workers[p].up /\ workers[q].up /\ workers[p].job = id)
            => workers[q].job # id
    /\ Starts(id) => jobs[id].state = "waiting"
    /\ (jobs[id].state = "active" /\ jobs[id].lockUntil <= clock
            /\ jobs'[id].state # "active")
        => jobs'[id].state = "waiting"

C19_OneWorkerPerJob == [][\A id \in JobIds : C19Step(id)]_vars

----------------------------------------------------------------------------
\* C20: two server processes that both call scheduleAnalytics enqueue
\* exactly one calculate-analytics job for an hourly tick: no instance of
\* the repeatable job is ever added twice, and once a server has started
\* the job of the coming tick has been added exactly once, however many
\* servers have started.
C20_OneJobPerTick ==
    /\ \A id \in RepeatIds : jobs[id].added <= 1
    /\ ((\E p \in Procs : workers[p].up) /\ clock < CronPeriodMs)
        => jobs[<<"repeat", CronPeriodMs>>].added = 1

\* both servers have started before the first tick, the job of that tick
\* has run and the job of the next tick is waiting for its time
C20_Witness ==
    /\ \A p \in Procs : workers[p].up
    /\ "calculate-analytics" \in repeat
    /\ jobs[<<"repeat", CronPeriodMs>>].state = "completed"
    /\ jobs[<<"repeat", CronPeriodMs>>].added = 1
    /\ jobs[<<"repeat", 2 * CronPeriodMs>>].state = "delayed"
    /\ jobs[<<"repeat", 2 * CronPeriodMs>>].added = 1

----------------------------------------------------------------------------
\* C21: once a server process has run scheduleAnalytics() and
\* scheduleCleanup(), the queue holds both repeatable jobs, the hourly
\* analytics job and the daily inactive-user cleanup job, so that a cleanup
\* job is enqueued at each daily tick.  The code registers the analytics job
\* only: no cleanup job is ever enqueued.
C21_CleanupScheduled ==
    "calculate-analytics" \in repeat => "cleanup-inactive-users" \in repeat

----------------------------------------------------------------------------
\* C23: when the provider call of a request fails, by timeout or by an error
\* answer of the provider, the caller receives the one message of the
\* capability, whatever the failure was: nothing of the provider's own
\* answer reaches the caller.
C23_UniformUpstreamUnavailable ==
    [][\A s \in Slots :
          (reqs[s].pc = "axios" /\ reqs'[s].gw = "failed")
          => reqs'[s].body = ErrorBody(GatewayError(reqs[s].url, "timeout"))]_vars

----------------------------------------------------------------------------
\* C26: when clearCache has removed the entry of an external-API URL, the
\* next request for that URL is answered with data fetched from the provider
\* after the removal: at the removal the gateway holds no data for the URL
\* that a later request could be answered with.
C26Step(s) ==
    LET r == reqs[s]
        q == reqs'[s]
    IN (r.pc = "del" /\ q.pc = "done" /\ q.status = 200) =>
          \A u \in Urls :
             (CacheKey(u) \in r.keys /\ CacheKey(u) \notin {e.key : e \in redis'})
             => NcGet(GatewayKey(u)) = NoData

C26_FreshAfterInvalidation == [][\A s \in Slots : C26Step(s)]_vars

----------------------------------------------------------------------------
\* C27: clearCache(pattern), for every pattern, "*" included, removes only
\* keys that begin with "cache:": no step of the server removes or changes a
\* key of the job queues that live in the same Redis.
ForeignEntries(store) == {e \in store : Head(e.key) # "cache:"}

C27_OnlyCacheKeysDeleted ==
    [][/\ ForeignEntries(redis') = ForeignEntries(redis)
       /\ \A s \in Slots : reqs'[s].pc = "del" =>
             \A k \in reqs'[s].keys : Head(k) = "cache:"]_vars

\* clearCache("*") has removed entries of the request cache and the keys of
\* the queues are in the store
C27_Witness ==
    \E s \in Slots :
        /\ reqs[s].pc = "done" /\ reqs[s].method = "DELETE" /\ reqs[s].status = 200
        /\ reqs[s].pattern = <<"*">> /\ reqs[s].removed > 0
        /\ ForeignEntries(redis) = QueueEntries

----------------------------------------------------------------------------
\* C29 (as stated): a cache hit leaves the user's apiCallsCount and
\* lastApiCall as they were; the two change, the count by exactly one, only
\* in a request that reached the handler and whose provider call succeeded.
UserStep(s, w) ==
    /\ reqs[s].user = w
    /\ reqs[s].pc = "save"
    /\ users'[w] = [users[w] EXCEPT !.apiCallsCount = @ + 1, !.lastApiCall = now]

C29_Original ==
    [][/\ \A s \in Slots : (Looks(s) /\ reqs'[s].lookup = "hit") => users' = users
       /\ \A w \in Accounts :
            users'[w] # users[w] =>
                \E s \in Slots : UserStep(s, w) /\ reqs[s].gw = "fresh"]_vars

\* C29 (amended): a cache hit leaves the two fields as they were; they
\* change, the count by exactly one, only in a request that reached the
\* handler and whose gateway call returned data, from the provider or from
\* the gateway's own cache.
C29_CountedWhenHandlerServes ==
    [][/\ \A s \in Slots : (Looks(s) /\ reqs'[s].lookup = "hit") => users' = users
       /\ \A w \in Accounts :
            users'[w] # users[w] =>
                \E s \in Slots : UserStep(s, w) /\ reqs[s].gw \in {"fresh", "cached"}]_vars

\* testuser was answered from the request cache and no call of testuser has
\* been counted, while a call of admin has
C29_Witness ==
    \E s \in Slots :
        /\ reqs[s].pc = "done" /\ reqs[s].user = "testuser" /\ reqs[s].lookup = "hit"
        /\ users["testuser"] = NewDoc("testuser")
        /\ users["admin"].apiCallsCount = 1

----------------------------------------------------------------------------
\* C25: clearCache runs only for a request whose user has the role admin: a
\* DELETE /api/admin/cache request of any other user is answered 403, never
\* reaches the scan or the deletion, and leaves the store as it was.
ActingUser(s) == IF reqs[s].pc = "idle" THEN reqs'[s].user ELSE reqs[s].user

C25Step(s) ==
    (reqs'[s] # reqs[s] /\ ActingMethod(s) = "DELETE") =>
        \/ users[ActingUser(s)].role = "admin"
        \/ /\ redis' = redis
           /\ reqs'[s].pc \in {"idle", "done"}
           /\ reqs'[s].pc = "done" => (reqs'[s].status = 403 /\ reqs'[s].keys = {})

C25_OnlyAdminClears == [][\A s \in Slots : C25Step(s)]_vars

\* testuser asked for the cache to be cleared, was refused, and the entries
\* are in the store
C25_Witness ==
    \E s \in Slots :
        /\ reqs[s].pc = "done" /\ reqs[s].method = "DELETE"
        /\ reqs[s].user = "testuser" /\ reqs[s].status = 403
        /\ \E e \in redis : Live(e) /\ GlobMatch(ScanPattern(reqs[s].pattern), e.key)

----------------------------------------------------------------------------
\* C30: the key of an entry is made of the URL alone.  Whoever the user of
\* a GET is, a live entry under "cache:" + URL makes the request a hit whose
\* body is the stored body with the two annotations and nothing of the
\* user: the body one user's request stored is what any other user gets.
C30Step(s) ==
    LET q == reqs'[s]
        k == <<"cache:">> \o q.url
    IN (Looks(s) /\ q.lookup # "err") =>
          \A e \in redis :
             (e.key = k /\ Live(e)) =>
                 /\ q.user \in Users
                 /\ q.lookup = "hit"
                 /\ q.body = [cached |-> TRUE, cacheKey |-> k] @@ JsonParse(e.val)

C30_SameBodyForEveryUser ==
    [][/\ \A s \in Slots : C30Step(s)
       /\ \A e \in redis' : e.key \in {<<"cache:">> \o u : u \in Urls}]_vars

\* testuser, no call of whom has ever been counted (so no request of
\* testuser has stored provider data), is answered with the provider data
\* that a request of admin stored
C30_Witness ==
    \E s \in Slots :
        /\ reqs[s].pc = "done" /\ reqs[s].lookup = "hit" /\ reqs[s].user = "testuser"
        /\ "data" \in DOMAIN reqs[s].body
        /\ users["testuser"].apiCallsCount = 0
        /\ users["admin"].apiCallsCount > 0
        /\ \E e \in redis : e.key = CacheKey(reqs[s].url) /\ Returned(reqs[s].body) = JsonParse(e.val)

----------------------------------------------------------------------------
\* C24: every request to an external-API route is decided by the route's
\* limiter before the cache is consulted: a request that is answered was
\* counted against the window of externalApiLimiter, hit or miss, and while
\* the window is full no request is answered from the cache.
C24Step(s) ==
    LET q == reqs'[s]
    IN (reqs[s].pc # "done" /\ q.pc = "done" /\ q.method \in Methods) =>
          /\ q.limited # "none"
          /\ (WindowOpen(hits) /\ hits.totalHits >= Max(limiter)) => q.status = 429

C24_LimiterBeforeCache == [][\A s \in Slots : C24Step(s)]_vars

----------------------------------------------------------------------------
\* C28: a registration is answered 201 only after its welcome-email job has
\* been added to the queue: the answer carries the token, the job of the
\* request is in the queue's store, addressed to the user, and the user's
\* document is stored.  When the add fails the request ends in an error
\* answer without a token, and the document created just before stays.
C28Step(s) ==
    LET r == reqs[s]
        q == reqs'[s]
    IN /\ (r.pc # "done" /\ q.pc = "done" /\ q.status = 201) =>
            /\ q.job \in EmailIds
            /\ jobs'[q.job].added >= 1
            /\ jobs'[q.job].to = q.user
            /\ "token" \in DOMAIN q.body
            /\ users'[q.user] # NoDoc
       /\ (r.pc = "enqueue" /\ q # r /\ jobs' = jobs) =>
            /\ q.pc = "done"
            /\ q.status >= 400
            /\ "token" \notin DOMAIN q.body
            /\ users'[q.user] = NewDoc(q.user)

C28_EnqueueBeforeToken == [][\A s \in Slots : C28Step(s)]_vars

\* newuser has registered and holds the 201 answer; the welcome job is in
\* the queue's store
C28_Witness ==
    \E s \in Slots :
        /\ reqs[s].pc = "done" /\ reqs[s].status = 201 /\ reqs[s].user = "newuser"
        /\ jobs[reqs[s].job].to = "newuser"
        /\ users["newuser"] # NoDoc

====
